---- MODULE Spec2Model ----
(***************************************************************************)
(* A model of the rule applicability gate and the cached operation        *)
(* pipeline of cdisc_rules_engine/utilities/rule_processor.py.            *)
(*                                                                         *)
(* Strings whose characters matter (domain names, column names) are        *)
(* sequences of one-character strings; names that are only compared for    *)
(* equality (operator names, class names, file names) are TLA+ strings.    *)
(* Python lists that the code only tests for emptiness and membership are  *)
(* sets.  None is the string "None".                                       *)
(***************************************************************************)
EXTENDS Integers, Sequences, FiniteSets, TLC

None == "None"

(* ------------------------------ bounds -------------------------------- *)
\* longest Include / Exclude list of a rule drawn by the gate actions
MaxList == 2

(* ------------------------------ strings ------------------------------- *)
AE == <<"A", "E">>
CM == <<"C", "M">>
SUPPAE == <<"S", "U", "P", "P", "A", "E">>
APAE == <<"A", "P", "A", "E">>
ALL == <<"A", "l", "l">>
DASHES == <<"-", "-">>

StartsWith(s, p) == Len(p) <= Len(s) /\ SubSeq(s, 1, Len(p)) = p

\* cdisc_rules_engine.constants.domains
AP_DOMAIN == <<"A", "P">>
APFA_DOMAIN == <<"A", "P", "F", "A">>
SUPPLEMENTARY_DOMAINS == {<<"S", "U", "P", "P">>}

\* cdisc_rules_engine.constants.classes: "All" is not a class a dataset has
DETECTABLE_CLASSES == {"EVENTS", "FINDINGS"}

\* utils.is_supp_domain: the domain carries a supplementary prefix
is_supp_domain(dataset_domain) ==
    \E p \in SUPPLEMENTARY_DOMAINS : StartsWith(dataset_domain, p)

\* utils.is_ap_domain: AP / APFA prefixed (APRELSUB is AP prefixed)
is_ap_domain(dataset_domain) ==
    StartsWith(dataset_domain, AP_DOMAIN) \/ StartsWith(dataset_domain, APFA_DOMAIN)

(* --------------------------- applicability ---------------------------- *)
\* faulty variant: the family entry is looked for without its "--" suffix
domain_in_supp_domains_NoSuffix(domains) ==
    \E domain \in domains : domain \in SUPPLEMENTARY_DOMAINS

domain_in_supp_domains(domains) ==
    LET supp_domains == {domain \o DASHES : domain \in SUPPLEMENTARY_DOMAINS}
    IN  \E domain \in domains : domain \in supp_domains

\* faulty variant: the Exclude list is matched verbatim only, "All" and the
\* family entries are not looked at
domain_is_excluded_VerbatimOnly(dataset_domain, excluded_domains) ==
    excluded_domains # {} /\ dataset_domain \in excluded_domains

\* the Exclude list matches the dataset's domain
domain_is_excluded(dataset_domain, excluded_domains) ==
    LET matches_supp_naming_pattern ==
            is_supp_domain(dataset_domain) /\ domain_in_supp_domains(excluded_domains)
        matches_ap_naming_pattern ==
            \E excluded_domain \in excluded_domains :
                /\ is_ap_domain(dataset_domain)
                /\ excluded_domain \in {AP_DOMAIN \o DASHES, APFA_DOMAIN \o DASHES}
    IN  /\ excluded_domains # {}
        /\ \/ dataset_domain \in excluded_domains
           \/ ALL \in excluded_domains
           \/ matches_supp_naming_pattern
           \/ matches_ap_naming_pattern

\* the Include list admits the dataset's domain; with no Include list and
\* include_split_datasets True only split datasets are admitted
domain_is_included(dataset_domain, included_domains, include_split_datasets, is_split_domain) ==
    LET matches_supp_naming_pattern ==
            is_supp_domain(dataset_domain) /\ domain_in_supp_domains(included_domains)
        matches_ap_naming_pattern ==
            \E included_domain \in included_domains :
                /\ is_ap_domain(dataset_domain)
                /\ included_domain \in {AP_DOMAIN \o DASHES, APFA_DOMAIN \o DASHES}
    IN  IF included_domains # {}
        THEN ~ ( /\ dataset_domain \notin included_domains
                 /\ ALL \notin included_domains
                 /\ ~(matches_supp_naming_pattern \/ matches_ap_naming_pattern) )
        ELSE ~ (include_split_datasets = "True" /\ ~is_split_domain)

\* faulty variant: the flag include_split_datasets overrides nothing
rule_applies_to_domain_NoSplitOverride(dataset_domain, rule, is_split_domain) ==
    /\ domain_is_included(dataset_domain, rule.domains.Include,
                          rule.domains.include_split_datasets, is_split_domain)
    /\ ~domain_is_excluded(dataset_domain, rule.domains.Exclude)

\* faulty variant: the flag include_split_datasets True lets a split dataset
\* in although the Exclude list matches it
rule_applies_to_domain_SplitBeatsExclude(dataset_domain, rule, is_split_domain) ==
    \/ rule.domains.include_split_datasets = "True" /\ is_split_domain
    \/ /\ domain_is_included(dataset_domain, rule.domains.Include,
                             rule.domains.include_split_datasets, is_split_domain)
       /\ ~domain_is_excluded(dataset_domain, rule.domains.Exclude)
       /\ ~(rule.domains.include_split_datasets = "False" /\ is_split_domain)

\* rule.get("domains") or {} : a missing key reads as the empty list / None
rule_applies_to_domain(dataset_domain, rule, is_split_domain) ==
    LET included_domains == rule.domains.Include
        excluded_domains == rule.domains.Exclude
        include_split_datasets == rule.domains.include_split_datasets
        is_included0 == domain_is_included(dataset_domain, included_domains,
                                           include_split_datasets, is_split_domain)
        is_excluded0 == domain_is_excluded(dataset_domain, excluded_domains)
        \* additional check for split domains based on the flag
        is_included ==
            IF include_split_datasets = "True" /\ is_split_domain /\ ~is_excluded0
            THEN TRUE ELSE is_included0
        is_excluded ==
            IF include_split_datasets = "False" /\ is_split_domain
            THEN TRUE ELSE is_excluded0
    IN  is_included /\ ~is_excluded

\* The verdict and the number of data_service.get_dataset_class calls made.
\* class_name is what the data service answers for the dataset (None when
\* the class cannot be detected).
rule_applies_to_class(rule, class_name) ==
    LET included_classes == {c \in rule.classes.Include : c \in DETECTABLE_CLASSES}
        excluded_classes == rule.classes.Exclude
        is_included ==
            ~ ( included_classes # {}
                /\ class_name \notin included_classes
                /\ "All" \notin included_classes )
        is_excluded ==
            excluded_classes # {}
            /\ class_name # None /\ class_name \in excluded_classes
    IN  [ result |-> is_included /\ ~is_excluded,
          fetches |-> (IF included_classes # {} THEN 1 ELSE 0)
                      + (IF excluded_classes # {} THEN 1 ELSE 0) ]

\* faulty variant: only the first required key is looked at
valid_rule_structure_FirstKeyOnly(rule) == "standards" \in rule.keys

valid_rule_structure(rule) ==
    \A key \in {"standards", "core_id"} : key \in rule.keys

\* and-chain: the class gate runs only when the first two conjuncts hold
is_suitable_for_validation(rule, dataset_domain, class_name, is_split_domain) ==
    IF ~valid_rule_structure(rule) THEN [result |-> FALSE, fetches |-> 0]
    ELSE IF ~rule_applies_to_domain(dataset_domain, rule, is_split_domain)
         THEN [result |-> FALSE, fetches |-> 0]
         ELSE rule_applies_to_class(rule, class_name)

(* ------------------------- inputs of the gate ------------------------- *)
SUPP_GENERIC == <<"S", "U", "P", "P", "-", "-">>
AP_GENERIC == <<"A", "P", "-", "-">>
Tri == {"True", "False", None}
RequiredKeys == {"standards", "core_id"}

\* entries a rule's domains.Include / domains.Exclude may hold
DomainEntries == {AE, CM, SUPP_GENERIC, AP_GENERIC, ALL}
\* domains of the dataset under validation
DatasetDomains == {AE, CM, SUPPAE, APAE}
\* entries a rule's classes.Include / classes.Exclude may hold
\* ("TRIAL DESIGN" is a class the engine cannot detect)
ClassEntries == {"EVENTS", "All", "TRIAL DESIGN"}
\* answers of data_service.get_dataset_class
DatasetClasses == {"EVENTS", "FINDINGS", None}

Lists(universe) == {l \in SUBSET universe : Cardinality(l) <= MaxList}

\* the smaller input space of the whole-gate action
SuitableEntries == {AE, CM, SUPP_GENERIC, ALL}
SuitableDomains == {AE, CM, SUPPAE}
SuitableClassLists == {{}, {"EVENTS"}}
SuitableClasses == {"EVENTS", None}

MkRule(keys, inc, exc, flag, cinc, cexc) ==
    [ keys |-> keys,
      domains |-> [Include |-> inc, Exclude |-> exc, include_split_datasets |-> flag],
      classes |-> [Include |-> cinc, Exclude |-> cexc] ]

(* ====================== the operation pipeline ======================= *)
\* invocations of perform_rule_operations one worker makes on its rule object
MaxRuns == 2
\* operations in a rule
MaxOps == 2
\* largest value a dataset's target column aggregates to
MaxVal == 1

Workers == {"w1", "w2"}

USUBJID == <<"U", "S", "U", "B", "J", "I", "D">>
AECAT == <<"A", "E", "C", "A", "T">>
AESEQ == <<"A", "E", "S", "E", "Q">>
QVAL == <<"Q", "V", "A", "L">>

RECURSIVE Join(_, _)
\* sep.join(items)
Join(items, sep) ==
    IF items = <<>> THEN <<>>
    ELSE IF Len(items) = 1 THEN Head(items)
    ELSE Head(items) \o sep \o Join(Tail(items), sep)

\* operations DataProcessor offers (getattr(data_processor, name, None))
Capabilities == {"min", "max"}

Op(id, operator, name, domain, group) ==
    [id |-> id, operator |-> operator, name |-> name, domain |-> domain, group |-> group]

\* operation declarations a rule may hold; domain <<>> stands for a missing
\* "domain" key and group <<>> for a missing "group" key
OpCatalog ==
    { Op(<<"$", "a">>, "min", AESEQ, <<>>, <<>>),
      Op(<<"$", "b">>, "min", AESEQ, <<>>, <<>>),
      Op(<<"$", "g">>, "min", AESEQ, <<>>, <<USUBJID, AECAT>>),
      Op(<<"$", "h">>, "min", AESEQ, <<>>, <<AECAT, USUBJID>>),
      Op(<<"$", "x">>, "median", AESEQ, <<>>, <<>>),
      Op(<<"$", "m">>, "max", AESEQ, CM, <<>>),
      Op(<<"$", "s">>, "max", QVAL, SUPPAE, <<>>) }

OpIds == {o.id : o \in OpCatalog}

Rules == UNION {[1..n -> OpCatalog] : n \in 0..MaxOps}
SingleOpRules == {<<>>} \cup {<<o>> : o \in OpCatalog}

(* ------------------------------ datasets ------------------------------ *)
NoCol == -1
NoCols == [id \in OpIds |-> NoCol]

\* a dataframe: the value of its DOMAIN column, its rows, what its target
\* column aggregates to, and the columns operations have added
MkDataset(domain, val) ==
    [DOMAIN |-> domain, rows |-> <<1, 2>>, val |-> val, cols |-> NoCols]
NullDataset == [DOMAIN |-> <<>>, rows |-> <<>>, val |-> 0, cols |-> NoCols]

Dir == "study"
\* the dataset descriptor list: domain CM has no file
Descriptors ==
    << [domain |-> AE, filename |-> "ae.xpt"],
       [domain |-> SUPPAE, filename |-> "suppae.xpt"] >>

\* utils.get_directory_path: a path is <<directory, file name>>
get_directory_path(dataset_path) == dataset_path[1]

\* utils.search_in_list_of_dicts: the first match, else None
search_in_list_of_dicts(list, domain) ==
    LET hits == {k \in 1..Len(list) : list[k].domain = domain}
    IN  IF hits = {} THEN [domain |-> <<>>, filename |-> None]
        ELSE list[CHOOSE k \in hits : \A j \in hits : k <= j]

\* data_service.get_dataset: the file's dataset, a fresh dataframe
get_dataset(file_path) ==
    IF file_path[2] = "ae.xpt" THEN MkDataset(AE, MaxVal)
    ELSE IF file_path[2] = "suppae.xpt" THEN MkDataset(SUPPAE, MaxVal)
    ELSE NullDataset

\* what a caller hands to perform_rule_operations
CallerChoices ==
    { [dataset |-> MkDataset(d, v), domain |-> d,
       dataset_path |-> <<Dir, IF d = AE THEN "ae.xpt" ELSE "suppae.xpt">>] :
        d \in {AE, SUPPAE}, v \in 0..MaxVal }

(* ------------------------------ results ------------------------------- *)
\* an operation result: a scalar, or a frame keyed by the grouping columns
NoneResult == [kind |-> "none", v |-> 0]
Scalar(v) == [kind |-> "scalar", v |-> v]
Frame(v) == [kind |-> "frame", v |-> v]

\* the operation capability: grouped operations answer a frame
Capability(operation_name, grouping, dataframe) ==
    IF grouping = <<>> THEN Scalar(dataframe.val) ELSE Frame(dataframe.val)

\* bool(result): None and 0 are falsy; a frame has no truth value
Truth(result) ==
    IF result.kind = "frame" THEN "ValueError"
    ELSE IF result.kind = "scalar" /\ result.v # 0 THEN "True" ELSE "False"

(* ------------------------------- cache -------------------------------- *)
\* utils.get_operations_cache_key
get_operations_cache_key(directory_path, operation_name, domain, grouping, target_variable) ==
    <<directory_path, operation_name, domain, grouping, target_variable>>

CacheGet(c, cache_key) == IF cache_key \in DOMAIN c THEN c[cache_key] ELSE NoneResult
CacheAdd(c, cache_key, data) ==
    [k \in DOMAIN c \cup {cache_key} |-> IF k = cache_key THEN data ELSE c[k]]
EmptyCache == [k \in {} |-> NoneResult]

(* --------------------- helpers of rule_processor ---------------------- *)
is_relationship_dataset(domain) ==
    domain \in {<<"R", "E", "L", "R", "E", "C">>, <<"R", "E", "L", "S", "U", "B">>, <<"C", "O">>}
    \/ StartsWith(domain, <<"S", "U", "P", "P">>)

is_current_domain(dataset, target_domain) ==
    IF ~is_relationship_dataset(target_domain)
    THEN dataset.DOMAIN # <<>> /\ dataset.DOMAIN = target_domain
    ELSE FALSE

\* the cache key _execute_operation builds for an operation
OperationKey(directory_path, operation, domain) ==
    get_operations_cache_key(directory_path, operation.operator, domain,
                             Join(operation.group, <<";">>), operation.name)

(* ====================== condition tree rewriter ======================= *)
\* a python dict is the function from the keys it holds to their values;
\* a condition tree is the sequence of its items: one [key, list] per branch,
\* list holding the leaf conditions of the branch in order
EmptyDict == <<>>
Get(d, k, default) == IF k \in DOMAIN d THEN d[k] ELSE default
Put(d, k, v) == [x \in DOMAIN d \cup {k} |-> IF x = k THEN v ELSE d[x]]

\* str.replace(old, new, count): the leftmost occurrences, scanning left to
\* right without overlap, at most count of them; every one when count < 0
RECURSIVE Replace(_, _, _, _)
Replace(s, old, new, count) ==
    IF count = 0 \/ Len(s) < Len(old) THEN s
    ELSE IF StartsWith(s, old)
         THEN new \o Replace(SubSeq(s, Len(old) + 1, Len(s)), old, new, count - 1)
         ELSE <<Head(s)>> \o Replace(Tail(s), old, new, count)

\* ConditionInterface.values(): the leaf conditions of the tree, in order
RECURSIVE values(_)
values(conditions) ==
    IF conditions = <<>> THEN <<>>
    ELSE Head(conditions).list \o values(Tail(conditions))

(* ---------------- create_list_of_conditions_for_each_target ----------- *)
\* the body of the inner loop: a deep copy of the condition with the target
target_condition(condition, target) ==
    LET value == Get(condition, "value", EmptyDict)
    IN  Put(condition, "value", Put(value, "target", target))

\* faulty variant: the loops are swapped, targets outside and conditions inside
RECURSIVE create_list_of_target_conditions_TargetMajor(_, _)
create_list_of_target_conditions_TargetMajor(condition_list, targets) ==
    IF targets = <<>> THEN <<>>
    ELSE [j \in 1..Len(condition_list) |->
              target_condition(condition_list[j], Head(targets))]
         \o create_list_of_target_conditions_TargetMajor(condition_list, Tail(targets))

RECURSIVE create_list_of_target_conditions(_, _)
create_list_of_target_conditions(condition_list, targets) ==
    IF condition_list = <<>> THEN <<>>
    ELSE LET condition == Head(condition_list)
             target_conditions ==
                 [i \in 1..Len(targets) |-> target_condition(condition, targets[i])]
         IN  target_conditions
             \o create_list_of_target_conditions(Tail(condition_list), targets)

\* the new tree: one item per item of the old one, under the same key
create_list_of_conditions_for_each_target(conditions, targets) ==
    [b \in 1..Len(conditions) |->
        [key  |-> conditions[b].key,
         list |-> create_list_of_target_conditions(conditions[b].list, targets)]]

(* -------------------- add_operator_to_rule_conditions ------------------ *)
\* the values of target_to_operator_map: a string, a list of strings, or
\* nothing (what dict.get answers for a missing key)
OperatorStr(operator) == [type |-> "str", str |-> operator]
OperatorList(operators) == [type |-> "list", list |-> operators]
NoOperator == [type |-> "None"]
\* python truth value of such a value
OperatorTruth(operator_to_add) ==
    CASE operator_to_add.type = "str"  -> operator_to_add.str # ""
      [] operator_to_add.type = "list" -> operator_to_add.list # <<>>
      [] OTHER -> FALSE

\* faulty variant: every nested condition carries the last operator of the list
add_operator_to_condition_LastOperator(condition, target_to_operator_map, domain) ==
    LET target == Replace(Get(Get(condition, "value", EmptyDict), "target", <<>>),
                          DASHES, domain, -1)
        operator_to_add == Get(target_to_operator_map, target, NoOperator)
    IN  IF ~OperatorTruth(operator_to_add) THEN condition
        ELSE IF operator_to_add.type = "str"
             THEN Put(condition, "operator", operator_to_add.str)
             ELSE [any |-> [i \in 1..Len(operator_to_add.list) |->
                       Put(condition, "operator",
                           operator_to_add.list[Len(operator_to_add.list)])]]

\* the body of the loop over the leaf conditions: what the condition dict
\* holds afterwards
add_operator_to_condition(condition, target_to_operator_map, domain) ==
    LET target == Replace(Get(Get(condition, "value", EmptyDict), "target", <<>>),
                          DASHES, domain, -1)
        operator_to_add == Get(target_to_operator_map, target, NoOperator)
    IN  IF ~OperatorTruth(operator_to_add) THEN condition
        ELSE IF operator_to_add.type = "str"
             THEN Put(condition, "operator", operator_to_add.str)
             ELSE LET nested_conditions ==
                          [i \in 1..Len(operator_to_add.list) |->
                              Put(condition, "operator", operator_to_add.list[i])]
                  IN  [any |-> nested_conditions]

add_operator_to_rule_conditions(conditions, target_to_operator_map, domain) ==
    [b \in 1..Len(conditions) |->
        [key  |-> conditions[b].key,
         list |-> [i \in 1..Len(conditions[b].list) |->
                      add_operator_to_condition(conditions[b].list[i],
                                                target_to_operator_map, domain)]]]

(* ------------------- add_comparator_to_rule_conditions ----------------- *)
\* None and the empty string are both false to python: both are <<>> here,
\* and so are None and the empty dict for the comparator argument

\* faulty variant: the prefix is put in front of the comparator already there
add_comparator_to_condition_Cumulative(condition, comparator, target_prefix) ==
    LET value == condition["value"]
        comparator_to_add ==
            IF comparator # EmptyDict THEN Get(comparator, value["target"], <<>>)
            ELSE IF target_prefix # <<>>
                 THEN target_prefix \o Get(value, "comparator", value["target"])
                 ELSE <<>>
    IN  IF comparator_to_add # <<>>
        THEN Put(condition, "value", Put(value, "comparator", comparator_to_add))
        ELSE condition

\* the body of the loop over the leaf conditions
add_comparator_to_condition(condition, comparator, target_prefix) ==
    LET value == condition["value"]
        comparator_to_add ==
            IF comparator # EmptyDict THEN Get(comparator, value["target"], <<>>)
            ELSE IF target_prefix # <<>> THEN target_prefix \o value["target"]
                 ELSE <<>>
    IN  IF comparator_to_add # <<>>
        THEN Put(condition, "value", Put(value, "comparator", comparator_to_add))
        ELSE condition

add_comparator_to_rule_conditions(conditions, comparator, target_prefix) ==
    [b \in 1..Len(conditions) |->
        [key  |-> conditions[b].key,
         list |-> [i \in 1..Len(conditions[b].list) |->
                      add_comparator_to_condition(conditions[b].list[i],
                                                  comparator, target_prefix)]]]

(* -------------------- extract_target_names_from_rule ------------------- *)
Digits == {"0", "1", "2", "3", "4", "5", "6", "7", "8", "9"}
NoPattern == [exists |-> FALSE, target |-> <<>>, digits |-> 0]

\* faulty variant: the pattern lets the digits be absent (\d* for \d+)
get_operator_related_pattern_DigitsOptional(operator, target) ==
    IF operator \in {"additional_columns_empty", "additional_columns_not_empty"}
    THEN [exists |-> TRUE, target |-> target, digits |-> 0]
    ELSE NoPattern

\* the pattern ^{target}\d+$ is the record of its target and of the least
\* number of digits it asks for
get_operator_related_pattern(operator, target) ==
    IF operator \in {"additional_columns_empty", "additional_columns_not_empty"}
    THEN [exists |-> TRUE, target |-> target, digits |-> 1]
    ELSE NoPattern

\* re.match(pattern, name) for such a pattern
re_match(pattern, name) ==
    /\ StartsWith(name, pattern.target)
    /\ Len(name) - Len(pattern.target) >= pattern.digits
    /\ \A i \in (Len(pattern.target) + 1)..Len(name) : name[i] \in Digits

\* what one leaf condition adds to target_names
condition_target_names(condition, domain, column_names) ==
    LET value == condition["value"]
    IN  IF "target" \notin DOMAIN value THEN {}
        ELSE LET target == Replace(value["target"], DASHES, domain, -1)
                 op_related_pattern ==
                     get_operator_related_pattern(Get(condition, "operator", None), target)
             IN  IF op_related_pattern.exists
                 THEN {column_names[i] : i \in {j \in 1..Len(column_names) :
                                           re_match(op_related_pattern, column_names[j])}}
                 ELSE {target}

\* faulty variant: the conditions are read although output_variables is given
extract_target_names_from_rule_AlsoConditions(rule, domain, column_names) ==
    LET output_variables == Get(rule, "output_variables", <<>>)
        leaves == values(rule["conditions"])
    IN  {Replace(output_variables[i], DASHES, domain, 1) : i \in 1..Len(output_variables)}
        \cup UNION {condition_target_names(leaves[i], domain, column_names) :
                      i \in 1..Len(leaves)}

extract_target_names_from_rule(rule, domain, column_names) ==
    LET output_variables == Get(rule, "output_variables", <<>>)
        leaves == values(rule["conditions"])
    IN  IF output_variables # <<>>
        THEN {Replace(output_variables[i], DASHES, domain, 1) :
                 i \in 1..Len(output_variables)}
        ELSE UNION {condition_target_names(leaves[i], domain, column_names) :
                       i \in 1..Len(leaves)}

(* --------------------------- rewriter inputs --------------------------- *)
\* most leaf conditions a branch holds
MaxLeaves == 2
\* most targets create_list_of_conditions_for_each_target is given
MaxTargets == 3

AESTDY == <<"A", "E", "S", "T", "D", "Y">>
DOMAIN_VAR == <<"D", "O", "M", "A", "I", "N">>
TS == <<"T", "S">>
XX_TEST == <<"-", "-", "T", "E", "S", "T">>
XX_SEQ == <<"-", "-", "S", "E", "Q">>
XX_VAL == <<"-", "-", "V", "A", "L">>
AETEST == <<"A", "E", "T", "E", "S", "T">>
TSVAL == <<"T", "S", "V", "A", "L">>
TSVAL1 == <<"T", "S", "V", "A", "L", "1">>
TSVAL2 == <<"T", "S", "V", "A", "L", "2">>
TSVAL12 == <<"T", "S", "V", "A", "L", "1", "2">>
TSVALCD == <<"T", "S", "V", "A", "L", "C", "D">>
TSVAL1A == <<"T", "S", "V", "A", "L", "1", "A">>
OTHER_COL == <<"O", "T", "H", "E", "R">>
PARENT == <<"p", "a", "r", "e", "n", "t", ".">>

\* the order of the keys of a tree
KeyOrders == {<<"all">>, <<"any">>, <<"all", "any">>}
LeafLists(leaves) == UNION {[1..n -> leaves] : n \in 0..MaxLeaves}
Trees(leaves) ==
    UNION { { [b \in 1..Len(keys) |-> [key |-> keys[b], list |-> lists[b]]] :
                lists \in [1..Len(keys) -> LeafLists(leaves)] } : keys \in KeyOrders }

\* leaves before targets are given to them: the one of the docstring, one
\* that already has a value
UntargetedLeaves ==
    { [name |-> "get_dataset", operator |-> "equal_to"],
      [name |-> "get_dataset", operator |-> "not_equal_to",
       value |-> [target |-> XX_SEQ, comparator |-> <<"1">>]] }
TargetLists == UNION {[1..n -> {AESTDY, AESEQ, DOMAIN_VAR}] : n \in 0..MaxTargets}

\* leaves before operators are given to them
OperatorlessLeaves ==
    { [name |-> "get_dataset", value |-> [target |-> XX_TEST, comparator |-> <<"1">>]],
      [name |-> "get_dataset", operator |-> "exists", value |-> [target |-> USUBJID]],
      [name |-> "get_dataset"] }
OperatorValues ==
    { NoOperator, OperatorStr("equal_to"), OperatorStr(""), OperatorList(<<>>),
      OperatorList(<<"is_contained_by">>), OperatorList(<<"empty", "non_empty">>) }
\* target_to_operator_map: what it holds for AETEST and for USUBJID
OperatorMaps ==
    { [t \in {t \in {AETEST, USUBJID} : f[t] # NoOperator} |-> f[t]] :
        f \in [{AETEST, USUBJID} -> OperatorValues] }

\* leaves before comparators are given to them: every one has a target
ComparatorlessLeaves ==
    { [name |-> "get_dataset", operator |-> "equal_to", value |-> [target |-> XX_SEQ]],
      [name |-> "get_dataset", operator |-> "equal_to",
       value |-> [target |-> AESEQ, comparator |-> <<"1">>]] }
ComparatorDicts == {EmptyDict, [t \in {AESEQ} |-> <<"9">>]}
TargetPrefixes == {<<>>, PARENT}

\* leaves to extract target names from: every one has a value
ExtractLeaves ==
    { [name |-> "get_dataset", operator |-> "additional_columns_empty",
       value |-> [target |-> TSVAL]],
      [name |-> "get_dataset", operator |-> "additional_columns_not_empty",
       value |-> [target |-> XX_VAL]],
      [name |-> "get_dataset", operator |-> "equal_to",
       value |-> [target |-> XX_TEST, comparator |-> <<"1">>]],
      [name |-> "get_dataset", value |-> [comparator |-> <<"1">>]] }
\* output_variables: variable names carry the placeholder in front or not at all
OutputVariables ==
    { <<>>, <<XX_TEST>>, <<XX_TEST, USUBJID>>, <<USUBJID, XX_SEQ, XX_TEST, XX_SEQ>> }
ColumnNames ==
    { <<>>, <<TSVAL, TSVAL1, TSVAL2, OTHER_COL>>,
      <<TSVAL12, TSVALCD, TSVAL1A, AETEST, TSVAL>> }
\* the rule has no output_variables key, or it has one of these lists
OutputVariablesChoices ==
    {[given |-> FALSE, list |-> <<>>]} \cup {[given |-> TRUE, list |-> o] : o \in OutputVariables}
ExtractRule(conditions, choice) ==
    IF choice.given THEN [conditions |-> conditions, output_variables |-> choice.list]
    ELSE [conditions |-> conditions]

(* ========================== dataset builder =========================== *)
\* most physical files of a study, most rows of a file
MaxFiles == 3
MaxRows == 2

\* utils.is_split_dataset: more than one descriptor has the domain
is_split_dataset(datasets, domain) ==
    Cardinality({i \in 1..Len(datasets) : datasets[i].domain = domain}) > 1

\* utils.get_corresponding_datasets: the descriptors of the domain, in order
get_corresponding_datasets(datasets, domain) ==
    SelectSeq(datasets, LAMBDA dataset : dataset.domain = domain)

\* os.path.join on <<directory, file name>> paths
os_path_join(directory_path, filename) == <<directory_path, filename>>

\* faulty variant: the files of every descriptor, whatever its domain
get_corresponding_datasets_names_EveryFile(self) ==
    [i \in 1..Len(self.datasets) |->
        os_path_join(get_directory_path(self.dataset_path), self.datasets[i].filename)]

get_corresponding_datasets_names(self) ==
    LET directory_path == get_directory_path(self.dataset_path)
        corresponding == get_corresponding_datasets(self.datasets, self.domain)
    IN  [i \in 1..Len(corresponding) |->
            os_path_join(directory_path, corresponding[i].filename)]

\* build(): the rows of the physical file, each known by its file and its
\* place in it
build(self, dataset_name) ==
    [r \in 1..self.files[dataset_name[2]] |-> [file |-> dataset_name[2], row |-> r]]

\* data_service.concat_split_datasets: func_to_call for every name, the
\* results put one after the other
RECURSIVE concat_split_datasets(_, _)
concat_split_datasets(self, dataset_names) ==
    IF dataset_names = <<>> THEN <<>>
    ELSE build(self, Head(dataset_names))
         \o concat_split_datasets(self, Tail(dataset_names))

\* BaseDatasetBuilder.get_dataset: the dataset it returns, the lists of names
\* it asked the data service to concatenate, the build() calls it made itself
builder_get_dataset(self) ==
    IF is_split_dataset(self.datasets, self.domain)
    THEN LET dataset_names == get_corresponding_datasets_names(self)
         IN  [dataset |-> concat_split_datasets(self, dataset_names),
              concatenated |-> <<dataset_names>>, built |-> <<>>]
    ELSE [dataset |-> build(self, self.dataset_path),
          concatenated |-> <<>>, built |-> <<self.dataset_path>>]

\* a builder: the descriptor of file i has filename i and domain d[i], file
\* i has rows[i] rows, the builder is made for file k and the domain of that
\* file, for a rule of type t
RuleTypes == {None, "Dataset Metadata Check"}
Builder(d, rows, k, t) ==
    [datasets |-> [i \in 1..Len(d) |-> [domain |-> d[i], filename |-> i]],
     files |-> rows, domain |-> d[k], dataset_path |-> <<Dir, k>>,
     rule |-> [rule_type |-> t]]

(* ======================== WHODrug terms factory ======================= *)
\* most lines of a WHODrug file
MaxLines == 3

\* the keys of __file_name_model_map in insertion order, and the model
\* class of each
WhodrugFileNames == <<"DD", "DDA", "INA">>
file_name_model_map(dictionary_filename) ==
    CASE dictionary_filename = "DD"  -> "DrugDictionary"
      [] dictionary_filename = "DDA" -> "AtcClassification"
      [] dictionary_filename = "INA" -> "AtcText"

\* the parameters from_txt_line declares after cls: AtcClassification's,
\* and those of the two other term classes
AtcClassification_from_txt_line_params == <<"dictionary_id", "line">>
term_from_txt_line_params == <<"line">>
from_txt_line_params(model_class) ==
    IF model_class = "AtcClassification" THEN AtcClassification_from_txt_line_params
    ELSE term_from_txt_line_params
\* the record type a term of the class carries
WhodrugRecordTypes(model_class) ==
    CASE model_class = "DrugDictionary"    -> "DRUG_DICT"
      [] model_class = "AtcClassification" -> "ATC_CLASSIFICATION"
      [] model_class = "AtcText"           -> "ATC_TEXT"

\* model_class.from_txt_line(*args): python raises TypeError when the
\* positional arguments do not fill the parameters; the line is the last one
from_txt_line(model_class, args) ==
    IF Len(args) # Len(from_txt_line_params(model_class))
    THEN [raised |-> "TypeError", term |-> [type |-> None, line |-> <<>>]]
    ELSE [raised |-> None,
          term |-> [type |-> WhodrugRecordTypes(model_class), line |-> args[Len(args)]]]

\* defaultdict(list): code_to_term_map[type].append(term_obj)
AppendTerm(code_to_term_map, term_obj) ==
    Put(code_to_term_map, term_obj.type,
        Append(Get(code_to_term_map, term_obj.type, <<>>), term_obj))

\* the loop over the lines of the open file; an exception ends it
RECURSIVE create_term_objects_from_file(_, _, _)
create_term_objects_from_file(code_to_term_map, dictionary_filename, lines) ==
    IF lines = <<>> THEN [raised |-> None, code_to_term_map |-> code_to_term_map]
    ELSE LET model_class == file_name_model_map(dictionary_filename)
             made == from_txt_line(model_class, <<Head(lines)>>)
         IN  IF made.raised # None
             THEN [raised |-> made.raised, code_to_term_map |-> code_to_term_map]
             ELSE create_term_objects_from_file(
                      AppendTerm(code_to_term_map, made.term),
                      dictionary_filename, Tail(lines))

\* the loop over the file names from position i on; directory holds the
\* lines of the files that exist
RECURSIVE install_terms_from(_, _, _, _)
install_terms_from(directory, i, code_to_term_map, warnings) ==
    IF i > Len(WhodrugFileNames)
    THEN [raised |-> None, code_to_term_map |-> code_to_term_map, warnings |-> warnings]
    ELSE LET dictionary_filename == WhodrugFileNames[i]
         IN  IF dictionary_filename \notin DOMAIN directory
             THEN install_terms_from(directory, i + 1, code_to_term_map,
                                     Append(warnings, dictionary_filename))
             ELSE LET created == create_term_objects_from_file(
                                     code_to_term_map, dictionary_filename,
                                     directory[dictionary_filename])
                  IN  IF created.raised # None
                      THEN [raised |-> created.raised,
                            code_to_term_map |-> created.code_to_term_map,
                            warnings |-> warnings]
                      ELSE install_terms_from(directory, i + 1,
                                              created.code_to_term_map, warnings)

install_terms(directory) == install_terms_from(directory, 1, EmptyDict, <<>>)

\* line n of a file
Line(dictionary_filename, n) == <<dictionary_filename, n>>
\* a directory: the files in present, file f with count[f] lines
Directory(present, count) ==
    [f \in present |-> [n \in 1..count[f] |-> Line(f, n)]]

VARIABLES
    gate,          \* the last call of the applicability gate: inputs and outcome
    dummy,         \* the data service is the placeholder (dummy) one
    cache,         \* the operation cache: cache key -> result
    rule,          \* per worker: the operations list of its rule object
    budget,        \* per worker: invocations it may still start
    pc,            \* per worker: position in perform_rule_operations
    call,          \* per worker: arguments of the running invocation
    heap,          \* per worker: the dataframe objects of the invocation
    dataset_copy,  \* per worker: the object the local dataset_copy names
    dataframe,     \* per worker: the object operation_params.dataframe names
    idx,           \* per worker: index of the operation in progress
    cache_key,     \* per worker: key built for the operation in progress
    result,        \* per worker: result of the operation in progress
    ret,           \* per worker: outcome of the invocation
    hist,          \* per worker: what happened to each operation executed
    rewriter,      \* the condition tree rewriter: the rule it works on, its last call
    builder,       \* the dataset builder: its fields and its last get_dataset call
    whodrug        \* the WHODrug terms factory: its last install_terms call

gateVars == <<gate>>
opsVars == <<dummy, cache, rule, budget, pc, call, heap, dataset_copy, dataframe,
             idx, cache_key, result, ret, hist>>
toolVars == <<rewriter, builder, whodrug>>
vars == <<gate, dummy, cache, rule, budget, pc, call, heap, dataset_copy, dataframe,
          idx, cache_key, result, ret, hist, rewriter, builder, whodrug>>

NoCall ==
    [ call |-> "none", rule |-> MkRule(RequiredKeys, {}, {}, None, {}, {}),
      dataset_domain |-> AE, is_split_domain |-> FALSE, class_name |-> None,
      result |-> FALSE, fetches |-> 0 ]

NoKey == <<>>
NoRet == [kind |-> "none", ref |-> None, err |-> None, names |-> None]
NoHeap == [o \in {"caller", "copy", "fetched"} |-> NullDataset]
NoArgs == [dataset |-> NullDataset, domain |-> <<>>, dataset_path |-> <<Dir, None>>]

NoRewrite ==
    [ call |-> "none", calls |-> 0, rule |-> [conditions |-> <<>>],
      given |-> <<>>, before |-> <<>>, targets |-> <<>>,
      target_to_operator_map |-> EmptyDict, domain |-> <<>>,
      comparator |-> EmptyDict, target_prefix |-> <<>>,
      column_names |-> <<>>, out |-> {} ]
NoBuild ==
    [ call |-> "none",
      self |-> [datasets |-> <<>>, files |-> <<>>, domain |-> <<>>,
                dataset_path |-> <<Dir, 0>>, rule |-> [rule_type |-> None]],
      dataset |-> <<>>, concatenated |-> <<>>, built |-> <<>> ]
NoInstall ==
    [ call |-> "none", directory |-> EmptyDict, raised |-> None,
      code_to_term_map |-> EmptyDict, warnings |-> <<>> ]
\* no call of the rewriter, of the builder or of the terms factory has been made
ToolsIdle == rewriter = NoRewrite /\ builder = NoBuild /\ whodrug = NoInstall

\* everything a worker holds before its first invocation
WorkersIdle ==
    /\ pc = [w \in Workers |-> "idle"]
    /\ call = [w \in Workers |-> NoArgs]
    /\ heap = [w \in Workers |-> NoHeap]
    /\ dataset_copy = [w \in Workers |-> "copy"]
    /\ dataframe = [w \in Workers |-> "copy"]
    /\ idx = [w \in Workers |-> 1]
    /\ cache_key = [w \in Workers |-> NoKey]
    /\ result = [w \in Workers |-> NoneResult]
    /\ ret = [w \in Workers |-> NoRet]
    /\ hist = [w \in Workers |-> <<>>]

\* the gate alone: no pipeline invocation is made
Init ==
    /\ gate = NoCall
    /\ ToolsIdle
    /\ dummy = FALSE
    /\ cache = EmptyCache
    /\ rule = [w \in Workers |-> <<>>]
    /\ budget = [w \in Workers |-> 0]
    /\ WorkersIdle

CallRuleAppliesToDomain ==
    /\ gate.call = "none"
    /\ UNCHANGED <<opsVars, toolVars>>
    /\ \E inc \in Lists(DomainEntries), exc \in Lists(DomainEntries), flag \in Tri,
       dom \in DatasetDomains, split \in BOOLEAN :
        LET r    == MkRule(RequiredKeys, inc, exc, flag, {}, {})
        IN  gate' = [ call |-> "domain", rule |-> r, dataset_domain |-> dom,
                      is_split_domain |-> split, class_name |-> None,
                      result |-> rule_applies_to_domain(dom, r, split),
                      fetches |-> 0 ]

CallRuleAppliesToClass ==
    /\ gate.call = "none"
    /\ UNCHANGED <<opsVars, toolVars>>
    /\ \E cinc \in Lists(ClassEntries), cexc \in Lists(ClassEntries),
       cls \in DatasetClasses :
        LET r    == MkRule(RequiredKeys, {}, {}, None, cinc, cexc)
            out == rule_applies_to_class(r, cls)
        IN  gate' = [ call |-> "class", rule |-> r, dataset_domain |-> AE,
                      is_split_domain |-> FALSE, class_name |-> cls,
                      result |-> out.result, fetches |-> out.fetches ]

CallIsSuitableForValidation ==
    /\ gate.call = "none"
    /\ UNCHANGED <<opsVars, toolVars>>
    /\ \E keys \in SUBSET RequiredKeys,
       inc \in Lists(SuitableEntries), exc \in Lists(SuitableEntries), flag \in Tri,
       dom \in SuitableDomains, split \in BOOLEAN,
       cinc \in SuitableClassLists, cexc \in SuitableClassLists,
       cls \in SuitableClasses :
        LET r    == MkRule(keys, inc, exc, flag, cinc, cexc)
            out == is_suitable_for_validation(r, dom, cls, split)
        IN  gate' = [ call |-> "suitable", rule |-> r, dataset_domain |-> dom,
                      is_split_domain |-> split, class_name |-> cls,
                      result |-> out.result, fetches |-> out.fetches ]

NextGate ==
    \/ CallRuleAppliesToDomain
    \/ CallRuleAppliesToClass
    \/ CallIsSuitableForValidation

SpecGate == Init /\ [][NextGate]_vars
(* ------------------- perform_rule_operations -------------------------- *)
OpAt(w) == rule[w][idx[w]]
\* operation.get("domain", domain)
OpDomain(w) == IF OpAt(w).domain = <<>> THEN call[w].domain ELSE OpAt(w).domain

Raise(w, err, names) ==
    /\ pc' = [pc EXCEPT ![w] = "raised"]
    /\ ret' = [ret EXCEPT ![w] = [kind |-> "error", ref |-> None, err |-> err, names |-> names]]

Return(w, ref) ==
    /\ pc' = [pc EXCEPT ![w] = "done"]
    /\ ret' = [ret EXCEPT ![w] = [kind |-> "dataset", ref |-> ref, err |-> None, names |-> None]]

\* faulty variant of dataset.copy(): the caller's object itself becomes the
\* working dataset
CopyDataset_NoCopy(objects) == [heap |-> objects, ref |-> "caller"]

\* dataset_copy = dataset.copy(): a new object with the caller's content
CopyDataset(objects) ==
    [heap |-> [objects EXCEPT !["copy"] = objects["caller"]], ref |-> "copy"]

\* the call, up to the loop over the rule's operations
Start(w) ==
    /\ pc[w] \in {"idle", "done", "raised"}
    /\ budget[w] > 0
    /\ \E c \in CallerChoices :
        LET copied == CopyDataset([NoHeap EXCEPT !["caller"] = c.dataset])
        IN  /\ call' = [call EXCEPT ![w] = c]
            /\ heap' = [heap EXCEPT ![w] = copied.heap]
            /\ dataset_copy' = [dataset_copy EXCEPT ![w] = copied.ref]
            /\ dataframe' = [dataframe EXCEPT ![w] = copied.ref]
            /\ IF rule[w] = <<>> THEN Return(w, copied.ref)
               ELSE /\ pc' = [pc EXCEPT ![w] = "begin"]
                    /\ ret' = [ret EXCEPT ![w] = NoRet]
    /\ budget' = [budget EXCEPT ![w] = @ - 1]
    /\ idx' = [idx EXCEPT ![w] = 1]
    /\ cache_key' = [cache_key EXCEPT ![w] = NoKey]
    /\ result' = [result EXCEPT ![w] = NoneResult]
    /\ hist' = [hist EXCEPT ![w] = <<>>]
    /\ UNCHANGED <<toolVars, gate, dummy, cache, rule>>

\* faulty variant: an unknown operator is skipped instead of raised
BeginOperation_SkipUnknown(w) ==
    /\ pc[w] = "begin"
    /\ dataframe' = [dataframe EXCEPT ![w] = dataset_copy[w]]
    /\ IF OpAt(w).operator \notin Capabilities
       THEN IF idx[w] = Len(rule[w])
            THEN Return(w, dataset_copy[w]) /\ UNCHANGED idx
            ELSE /\ idx' = [idx EXCEPT ![w] = @ + 1]
                 /\ UNCHANGED <<pc, ret>>
       ELSE /\ pc' = [pc EXCEPT ![w] = "lookup"]
            /\ UNCHANGED <<ret, idx>>
    /\ UNCHANGED <<toolVars, gate, dummy, cache, rule, budget, call, heap, dataset_copy,
                   cache_key, result, hist>>

\* one turn of the loop: build operation_params, resolve the operator
BeginOperation(w) ==
    /\ pc[w] = "begin"
    /\ dataframe' = [dataframe EXCEPT ![w] = dataset_copy[w]]
    /\ IF OpAt(w).operator \notin Capabilities
       THEN Raise(w, "unknown_operation", OpAt(w).operator)
       ELSE /\ pc' = [pc EXCEPT ![w] = "lookup"]
            /\ UNCHANGED ret
    /\ UNCHANGED <<toolVars, gate, dummy, cache, rule, budget, call, heap, dataset_copy,
                   idx, cache_key, result, hist>>

\* what the operation did: its signature, its key, whether
\* the capability ran and whether the cache was written
Event(w, key, served, stored) ==
    [ idx |-> idx[w], key |-> key, served |-> served, stored |-> stored,
      signature |-> [ directory_path |-> get_directory_path(call[w].dataset_path),
                      operation_name |-> OpAt(w).operator, domain |-> OpDomain(w),
                      grouping |-> OpAt(w).group, target |-> OpAt(w).name ] ]

\* _execute_operation, the cache check
CacheLookup(w) ==
    /\ pc[w] = "lookup"
    /\ LET key == OperationKey(get_directory_path(call[w].dataset_path), OpAt(w), OpDomain(w))
           found == CacheGet(cache, key)
       IN  /\ cache_key' = [cache_key EXCEPT ![w] = key]
           /\ IF Truth(found) = "ValueError"
              THEN /\ Raise(w, "truth_value_ambiguous", None)
                   /\ UNCHANGED <<result, hist>>
              ELSE IF Truth(found) = "True"
              THEN /\ result' = [result EXCEPT ![w] = found]
                   /\ hist' = [hist EXCEPT ![w] = Append(@, Event(w, key, "cache", FALSE))]
                   /\ pc' = [pc EXCEPT ![w] = "handle"]
                   /\ UNCHANGED ret
              ELSE /\ pc' = [pc EXCEPT ![w] = "execute"]
                   /\ UNCHANGED <<result, hist, ret>>
    /\ UNCHANGED <<toolVars, gate, dummy, cache, rule, budget, call, heap, dataset_copy,
                   dataframe, idx>>

\* _execute_operation after a cache miss: fetch the other domain when the
\* operation is not about the loaded one, call the operation, store the result
ExecuteOperation(w) ==
    /\ pc[w] = "execute"
    /\ LET current == is_current_domain(heap[w][dataframe[w]], OpDomain(w))
           domain_details == search_in_list_of_dicts(Descriptors, OpDomain(w))
           file_path == <<get_directory_path(call[w].dataset_path), domain_details.filename>>
       IN  IF ~current /\ domain_details.filename = None
           THEN /\ Raise(w, "lookup_miss", None)
                /\ UNCHANGED <<heap, dataframe, result, cache, hist>>
           ELSE LET objects == IF current THEN heap[w]
                               ELSE [heap[w] EXCEPT !["fetched"] = get_dataset(file_path)]
                    ref == IF current THEN dataframe[w] ELSE "fetched"
                    computed == Capability(OpAt(w).operator, OpAt(w).group, objects[ref])
                IN  /\ heap' = [heap EXCEPT ![w] = objects]
                    /\ dataframe' = [dataframe EXCEPT ![w] = ref]
                    /\ result' = [result EXCEPT ![w] = computed]
                    /\ cache' = IF ~dummy THEN CacheAdd(cache, cache_key[w], computed)
                                ELSE cache
                    /\ hist' = [hist EXCEPT ![w] =
                                    Append(@, Event(w, cache_key[w], "capability", ~dummy))]
                    /\ pc' = [pc EXCEPT ![w] = "handle"]
                    /\ UNCHANGED ret
    /\ UNCHANGED <<toolVars, gate, dummy, rule, budget, call, dataset_copy, idx, cache_key>>

\* _handle_operation_result and the end of the loop's turn
HandleResult(w) ==
    /\ pc[w] = "handle"
    /\ IF OpAt(w).group # <<>>
       THEN \* grouping.append(...) extends the rule's own list and answers None;
            \* result[None] then raises KeyError
            /\ rule' = [rule EXCEPT ![w][idx[w]].group = Append(@, OpAt(w).id)]
            /\ Raise(w, "merge_failed", None)
            /\ UNCHANGED <<heap, dataset_copy, idx>>
       ELSE /\ heap' = [heap EXCEPT ![w][dataframe[w]].cols[OpAt(w).id] = result[w].v]
            /\ dataset_copy' = [dataset_copy EXCEPT ![w] = dataframe[w]]
            /\ IF idx[w] = Len(rule[w])
               THEN Return(w, dataframe[w]) /\ UNCHANGED idx
               ELSE /\ idx' = [idx EXCEPT ![w] = @ + 1]
                    /\ pc' = [pc EXCEPT ![w] = "begin"]
                    /\ UNCHANGED ret
            /\ UNCHANGED rule
    /\ UNCHANGED <<toolVars, gate, dummy, cache, budget, call, dataframe, cache_key, result, hist>>

NextOps ==
    \E w \in Workers :
        \/ Start(w)
        \/ BeginOperation(w)
        \/ CacheLookup(w)
        \/ ExecuteOperation(w)
        \/ HandleResult(w)

\* one worker invokes the pipeline on its rule object, again and again
InitOps ==
    /\ gate = NoCall
    /\ ToolsIdle
    /\ dummy \in BOOLEAN
    /\ cache = EmptyCache
    /\ rule \in [Workers -> Rules]
    /\ rule["w2"] = <<>>
    /\ budget = [w \in Workers |-> IF w = "w1" THEN MaxRuns ELSE 0]
    /\ WorkersIdle

SpecOps == InitOps /\ [][NextOps]_vars

\* two workers invoke the pipeline concurrently, one single-operation rule each
InitRace ==
    /\ gate = NoCall
    /\ ToolsIdle
    /\ dummy \in BOOLEAN
    /\ cache = EmptyCache
    /\ rule \in [Workers -> SingleOpRules]
    /\ budget = [w \in Workers |-> 1]
    /\ WorkersIdle

SpecRace == InitRace /\ [][NextOps]_vars

(* ================== the rewriter, one call at a time ================== *)
CallCreateListOfConditionsForEachTarget ==
    /\ rewriter.call = "none"
    /\ \E conditions \in Trees(UntargetedLeaves), targets \in TargetLists :
        rewriter' = [NoRewrite EXCEPT
                        !.call = "targets", !.calls = 1,
                        !.given = conditions, !.before = conditions,
                        !.targets = targets,
                        !.rule = [conditions |->
                            create_list_of_conditions_for_each_target(conditions, targets)]]
    /\ UNCHANGED <<gateVars, opsVars, builder, whodrug>>

CallAddOperatorToRuleConditions ==
    /\ rewriter.call = "none"
    /\ \E conditions \in Trees(OperatorlessLeaves),
          target_to_operator_map \in OperatorMaps, domain \in {AE, CM} :
        rewriter' = [NoRewrite EXCEPT
                        !.call = "operator", !.calls = 1,
                        !.given = conditions, !.before = conditions,
                        !.target_to_operator_map = target_to_operator_map,
                        !.domain = domain,
                        !.rule = [conditions |->
                            add_operator_to_rule_conditions(
                                conditions, target_to_operator_map, domain)]]
    /\ UNCHANGED <<gateVars, opsVars, builder, whodrug>>

\* the first call on a rule, and the same call again on the rule it left
CallAddComparatorToRuleConditions ==
    /\ \/ /\ rewriter.call = "none"
          /\ \E conditions \in Trees(ComparatorlessLeaves),
                comparator \in ComparatorDicts, target_prefix \in TargetPrefixes :
              rewriter' = [NoRewrite EXCEPT
                              !.call = "comparator", !.calls = 1,
                              !.given = conditions, !.before = conditions,
                              !.comparator = comparator,
                              !.target_prefix = target_prefix,
                              !.rule = [conditions |->
                                  add_comparator_to_rule_conditions(
                                      conditions, comparator, target_prefix)]]
       \/ /\ rewriter.call = "comparator"
          /\ rewriter.calls = 1
          /\ rewriter' = [rewriter EXCEPT
                              !.calls = 2,
                              !.before = rewriter.rule["conditions"],
                              !.rule = [conditions |->
                                  add_comparator_to_rule_conditions(
                                      rewriter.rule["conditions"],
                                      rewriter.comparator, rewriter.target_prefix)]]
    /\ UNCHANGED <<gateVars, opsVars, builder, whodrug>>

CallExtractTargetNamesFromRule ==
    /\ rewriter.call = "none"
    /\ \E conditions \in Trees(ExtractLeaves), choice \in OutputVariablesChoices,
          domain \in {AE, TS}, column_names \in ColumnNames :
        LET r == ExtractRule(conditions, choice)
        IN  rewriter' = [NoRewrite EXCEPT
                            !.call = "extract", !.calls = 1,
                            !.given = r["conditions"], !.before = r["conditions"],
                            !.rule = r, !.domain = domain,
                            !.column_names = column_names,
                            !.out = extract_target_names_from_rule(r, domain, column_names)]
    /\ UNCHANGED <<gateVars, opsVars, builder, whodrug>>

NextRewrite ==
    \/ CallCreateListOfConditionsForEachTarget
    \/ CallAddOperatorToRuleConditions
    \/ CallAddComparatorToRuleConditions
    \/ CallExtractTargetNamesFromRule

SpecRewrite == Init /\ [][NextRewrite]_vars

(* =================== the builder, one call at a time =================== *)
CallGetDataset ==
    /\ builder.call = "none"
    /\ \E n \in 1..MaxFiles :
       \E d \in [1..n -> {AE, CM}], rows \in [1..n -> 0..MaxRows],
          k \in 1..n, t \in RuleTypes :
        LET self == Builder(d, rows, k, t)
            out == builder_get_dataset(self)
        IN  builder' = [call |-> "get_dataset", self |-> self,
                        dataset |-> out.dataset,
                        concatenated |-> out.concatenated, built |-> out.built]
    /\ UNCHANGED <<gateVars, opsVars, rewriter, whodrug>>

NextBuild == CallGetDataset

SpecBuild == Init /\ [][NextBuild]_vars

(* ================= the terms factory, one call at a time =============== *)
CallInstallTerms ==
    /\ whodrug.call = "none"
    /\ \E present \in SUBSET {"DD", "DDA", "INA"} :
       \E count \in [present -> 0..MaxLines] :
        LET directory == Directory(present, count)
            out == install_terms(directory)
        IN  whodrug' = [call |-> "install_terms", directory |-> directory,
                        raised |-> out.raised,
                        code_to_term_map |-> out.code_to_term_map,
                        warnings |-> out.warnings]
    /\ UNCHANGED <<gateVars, opsVars, rewriter, builder>>

NextWhodrug == CallInstallTerms

SpecWhodrug == Init /\ [][NextWhodrug]_vars

(* ======================= claims: applicability ======================== *)
NoClassRestriction(r) == r.classes.Include = {} /\ r.classes.Exclude = {}

\* C1 as stated: for every structurally valid rule with Include = ["AE"] and no
\* class restriction, is_suitable_for_validation answers true for dataset
\* domain AE and false for CM, whatever the Exclude list, the
\* include_split_datasets flag and the split status are.
C1_AsStated ==
    ( /\ gate.call = "suitable"
      /\ RequiredKeys \subseteq gate.rule.keys
      /\ gate.rule.domains.Include = {AE}
      /\ NoClassRestriction(gate.rule) )
    => /\ (gate.dataset_domain = AE => gate.result)
       /\ (gate.dataset_domain = CM => ~gate.result)

\* C1 amended: under the same premises the answer for AE is true exactly when
\* Exclude holds neither "AE" nor "All" and the rule does not switch split
\* datasets off for a split dataset; the answer for CM is false except when
\* include_split_datasets is true, the dataset is split and Exclude holds
\* neither "CM" nor "All".
C1_IncludeAE ==
    ( /\ gate.call = "suitable"
      /\ RequiredKeys \subseteq gate.rule.keys
      /\ gate.rule.domains.Include = {AE}
      /\ NoClassRestriction(gate.rule) )
    => LET exc == gate.rule.domains.Exclude
           flag == gate.rule.domains.include_split_datasets
           split == gate.is_split_domain
       IN  /\ gate.dataset_domain = AE =>
                ( gate.result <=> ( /\ AE \notin exc /\ ALL \notin exc
                                    /\ ~(flag = "False" /\ split) ) )
           /\ gate.dataset_domain = CM =>
                ( gate.result <=> ( /\ flag = "True" /\ split
                                    /\ CM \notin exc /\ ALL \notin exc ) )

\* "All" in the Exclude list shuts AE out although Include is ["AE"]
C1_Witness ==
    /\ gate.call = "suitable"
    /\ RequiredKeys \subseteq gate.rule.keys
    /\ gate.rule.domains.Include = {AE}
    /\ NoClassRestriction(gate.rule)
    /\ gate.rule.domains.Exclude = {ALL}
    /\ gate.dataset_domain = AE
    /\ ~gate.result

\* C6: is_suitable_for_validation answers false for every rule that lacks the
\* standards key or the core_id key, whatever the domain, the split status,
\* the domain lists and the class lists are.
C6_InvalidStructureRejected ==
    (gate.call = "suitable" /\ ~(RequiredKeys \subseteq gate.rule.keys))
    => ~gate.result

\* a rule with standards but no core_id that both gates would let through
C6_Witness ==
    /\ gate.call = "suitable"
    /\ gate.rule.keys = {"standards"}
    /\ rule_applies_to_domain(gate.dataset_domain, gate.rule, gate.is_split_domain)
    /\ rule_applies_to_class(gate.rule, gate.class_name).result
    /\ ~gate.result

\* C7: for dataset domain SUPPAE, an empty Exclude list and
\* include_split_datasets unset, the domain gate answers true for
\* Include = ["SUPP--"] and false for Include = ["AE"].
C7_SuppFamily ==
    ( /\ gate.call = "domain"
      /\ gate.dataset_domain = SUPPAE
      /\ gate.rule.domains.Exclude = {}
      /\ gate.rule.domains.include_split_datasets = None )
    => /\ (gate.rule.domains.Include = {SUPP_GENERIC} => gate.result)
       /\ (gate.rule.domains.Include = {AE} => ~gate.result)

C7_Witness ==
    /\ gate.call = "domain"
    /\ gate.dataset_domain = SUPPAE
    /\ gate.rule.domains.Exclude = {}
    /\ gate.rule.domains.include_split_datasets = None
    /\ gate.rule.domains.Include = {SUPP_GENERIC}
    /\ gate.is_split_domain
    /\ gate.result

\* C10 as stated: one rule_applies_to_class check asks the data service for
\* the dataset's class at most once, and exactly once whenever the rule
\* declares a detectable included class or an excluded class.
C10_ClassFetchedOnce ==
    gate.call = "class"
    => /\ gate.fetches <= 1
       /\ ( ( \/ gate.rule.classes.Include \cap DETECTABLE_CLASSES # {}
              \/ gate.rule.classes.Exclude # {} )
            => gate.fetches = 1 )
(* ========================= claims: pipeline =========================== *)
Range(f) == {f[x] : x \in DOMAIN f}

\* operation j of the worker's rule has been gone through in the running
\* (or last) invocation
Processed(w, j) ==
    /\ pc[w] # "idle"
    /\ j \in 1..Len(rule[w])
    /\ \/ j < idx[w]
       \/ j = idx[w] /\ pc[w] \in {"done", "raised"}

\* C2 as stated: with a real data service, of two operations with an
\* identical signature executed one after the other in one invocation the
\* second is served from the cache and the capability runs at most once.
C2_SecondServedFromCache ==
    \A w \in Workers : \A j \in 1..Len(hist[w]) :
        ( /\ ~dummy
          /\ j + 1 <= Len(hist[w])
          /\ hist[w][j].signature = hist[w][j + 1].signature )
        => /\ hist[w][j + 1].served = "cache"
           /\ Cardinality({n \in {j, j + 1} : hist[w][n].served = "capability"}) <= 1

\* C3 as stated: once the result of an operation that declares grouping
\* columns has been merged, the working dataset has the rows it had before
\* and a column named by the operation id; the merge drops nothing and
\* does not fail.
C3_GroupedMergeKeepsRows ==
    \A w \in Workers : \A j \in 1..Len(rule[w]) :
        ( /\ Processed(w, j)
          /\ \E e \in Range(hist[w]) : e.idx = j /\ e.signature.grouping # <<>> )
        => /\ ret[w].kind # "error"
           /\ heap[w][dataset_copy[w]].rows = call[w].dataset.rows
           /\ heap[w][dataset_copy[w]].cols[rule[w][j].id] # NoCol

\* C4: perform_rule_operations never modifies the caller's dataset object:
\* from the call on, whether it returns or raises, the object has the rows
\* and columns it was passed with, and the dataset handed back is another
\* object.
C4_CallerDatasetUntouched ==
    \A w \in Workers :
        pc[w] # "idle"
        => /\ heap[w]["caller"] = call[w].dataset
           /\ ret[w].kind = "dataset" => ret[w].ref # "caller"

\* an enriched dataset has been returned
C4_Witness ==
    \E w \in Workers :
        /\ pc[w] = "done"
        /\ ret[w].kind = "dataset"
        /\ \E id \in OpIds : heap[w][ret[w].ref].cols[id] # NoCol
        /\ heap[w]["caller"].cols = NoCols

\* the operation fails: no capability of that name, or a domain to fetch
\* that no descriptor lists
FailingOperation(w, j) ==
    LET op == rule[w][j]
        domain == IF op.domain = <<>> THEN call[w].domain ELSE op.domain
    IN  \/ op.operator \notin Capabilities
        \/ /\ ~is_current_domain(call[w].dataset, domain)
           /\ \A k \in 1..Len(Descriptors) : Descriptors[k].domain # domain

\* C5: when an operation of the rule fails (unknown operator, or fetch
\* target missing from the descriptors) perform_rule_operations raises, for
\* an unknown operator with an error naming it, hands back no dataset, and
\* the failing operation leaves nothing in the cache.
C5_FailureRaises ==
    \A w \in Workers : \A j \in 1..Len(rule[w]) :
        (Processed(w, j) /\ FailingOperation(w, j))
        => LET op == rule[w][j]
               domain == IF op.domain = <<>> THEN call[w].domain ELSE op.domain
           IN  /\ pc[w] = "raised" /\ idx[w] = j
               /\ ret[w].kind = "error" /\ ret[w].ref = None
               /\ op.operator \notin Capabilities
                    => ret[w].err = "unknown_operation" /\ ret[w].names = op.operator
               /\ \A e \in Range(hist[w]) : e.idx # j
               /\ OperationKey(get_directory_path(call[w].dataset_path), op, domain)
                    \notin DOMAIN cache

\* the second operation of a rule fails after the first one enriched the copy
C5_Witness ==
    \E w \in Workers :
        /\ pc[w] = "raised"
        /\ idx[w] = 2
        /\ ret[w].err = "lookup_miss"
        /\ \E id \in OpIds : heap[w]["copy"].cols[id] # NoCol
        /\ hist[w][1].stored

\* C8 as stated: two executed operations that agree on directory path,
\* operator name, domain and target and declare the same set of grouping
\* columns, in whatever order, are given the same cache key.
C8_KeyIgnoresGroupingOrder ==
    \A w1 \in Workers, w2 \in Workers :
        \A e1 \in Range(hist[w1]), e2 \in Range(hist[w2]) :
            ( /\ e1.signature.directory_path = e2.signature.directory_path
              /\ e1.signature.operation_name = e2.signature.operation_name
              /\ e1.signature.domain = e2.signature.domain
              /\ e1.signature.target = e2.signature.target
              /\ Range(e1.signature.grouping) = Range(e2.signature.grouping) )
            => e1.key = e2.key

\* C9 as stated: a value stored in the cache under a signature is never
\* replaced or removed by a later operation execution, of the same
\* invocation or of a concurrent one.
C9_WriteOnce ==
    [][\A k \in DOMAIN cache : k \in DOMAIN cache' /\ cache'[k] = cache[k]]_vars

(* ===================== claims: condition rewriter ====================== *)
\* the leaf conditions of branch b of a tree
Leaves(conditions, b) == conditions[b].list
\* dict d is dict o with key k added or overwritten, nothing else touched
SameBut(d, o, k) ==
    /\ DOMAIN d = DOMAIN o \cup {k}
    /\ \A f \in DOMAIN o \ {k} : d[f] = o[f]
ValueOf(condition) == IF "value" \in DOMAIN condition THEN condition["value"] ELSE <<>>

\* C11: after create_list_of_conditions_for_each_target the tree has the same
\* keys in the same order; a branch that had n leaves has n*k leaves for the
\* k targets given; the leaf at place (j-1)*k+i is the copy of original leaf j
\* for target i: its value.target is that target, every other entry of its
\* value and every other field are those of the original.  The one-leaf tree
\* of the docstring with targets AESTDY, AESEQ, DOMAIN yields the three leaves
\* in that order.
C11_LeafTimesTarget ==
    rewriter.call = "targets" =>
        LET old == rewriter.given
            new == rewriter.rule["conditions"]
            targets == rewriter.targets
            k == Len(targets)
            leaf == [name |-> "get_dataset", operator |-> "equal_to"]
        IN  /\ Len(new) = Len(old)
            /\ \A b \in 1..Len(old) :
                /\ new[b].key = old[b].key
                /\ Len(Leaves(new, b)) = Len(Leaves(old, b)) * k
                /\ \A j \in 1..Len(Leaves(old, b)), i \in 1..k :
                    LET copy == Leaves(new, b)[(j - 1) * k + i]
                        original == Leaves(old, b)[j]
                    IN  /\ SameBut(copy, original, "value")
                        /\ SameBut(copy["value"], ValueOf(original), "target")
                        /\ copy["value"]["target"] = targets[i]
            /\ ( old = <<[key |-> "all", list |-> <<leaf>>]>>
                 /\ targets = <<AESTDY, AESEQ, DOMAIN_VAR>> )
               => new = << [key |-> "all", list |->
                       << [name |-> "get_dataset", operator |-> "equal_to",
                           value |-> [target |-> AESTDY]],
                          [name |-> "get_dataset", operator |-> "equal_to",
                           value |-> [target |-> AESEQ]],
                          [name |-> "get_dataset", operator |-> "equal_to",
                           value |-> [target |-> DOMAIN_VAR]] >>] >>

\* a tree of two branches, one of them with two different leaves, has been
\* multiplied by three different targets
C11_Witness ==
    /\ rewriter.call = "targets"
    /\ Len(rewriter.given) = 2
    /\ rewriter.targets = <<AESTDY, AESEQ, DOMAIN_VAR>>
    /\ \E b \in 1..2 :
        /\ Len(Leaves(rewriter.given, b)) = 2
        /\ Leaves(rewriter.given, b)[1] # Leaves(rewriter.given, b)[2]
        /\ Len(Leaves(rewriter.rule["conditions"], b)) = 6

\* a variable name with the placeholder in front resolved for a domain
Resolved(name, domain) ==
    IF StartsWith(name, DASHES) THEN domain \o SubSeq(name, 3, Len(name)) ELSE name

\* C12: after add_operator_to_rule_conditions the tree has the same keys and
\* as many entries per branch as before, and for every leaf, by what the map
\* holds for its resolved target: a list of k >= 1 operators - the entry is
\* an "any" composite, nothing else, of k children in list order, child i
\* being the leaf with operator set to element i; one operator - the entry is
\* the leaf with operator set to it; nothing - the entry is the leaf as it was.
C12_OperatorInjected ==
    rewriter.call = "operator" =>
        LET old == rewriter.given
            new == rewriter.rule["conditions"]
            map == rewriter.target_to_operator_map
        IN  /\ Len(new) = Len(old)
            /\ \A b \in 1..Len(old) :
                /\ new[b].key = old[b].key
                /\ Len(Leaves(new, b)) = Len(Leaves(old, b))
                /\ \A j \in 1..Len(Leaves(old, b)) :
                    LET leaf == Leaves(old, b)[j]
                        entry == Leaves(new, b)[j]
                        target == IF "target" \in DOMAIN ValueOf(leaf)
                                  THEN Resolved(leaf["value"]["target"], rewriter.domain)
                                  ELSE <<>>
                        mapped == IF target \in DOMAIN map THEN map[target] ELSE NoOperator
                    IN  /\ (mapped.type = "list" /\ mapped.list # <<>>) =>
                            /\ DOMAIN entry = {"any"}
                            /\ Len(entry["any"]) = Len(mapped.list)
                            /\ \A i \in 1..Len(mapped.list) :
                                /\ SameBut(entry["any"][i], leaf, "operator")
                                /\ entry["any"][i]["operator"] = mapped.list[i]
                        /\ (mapped.type = "str" /\ mapped.str # "") =>
                            /\ SameBut(entry, leaf, "operator")
                            /\ entry["operator"] = mapped.str
                        /\ mapped = NoOperator => entry = leaf

\* a leaf with the placeholder in its target has been replaced by a
\* composite of two children, next to a leaf that has no mapping
C12_Witness ==
    /\ rewriter.call = "operator"
    /\ \E b \in 1..Len(rewriter.given) :
        /\ Len(Leaves(rewriter.given, b)) = 2
        /\ ValueOf(Leaves(rewriter.given, b)[1]) # <<>>
        /\ Leaves(rewriter.given, b)[1]["value"]["target"] = XX_TEST
        /\ DOMAIN Leaves(rewriter.rule["conditions"], b)[1] = {"any"}
        /\ Len(Leaves(rewriter.rule["conditions"], b)[1]["any"]) = 2
        /\ Leaves(rewriter.rule["conditions"], b)[2] = Leaves(rewriter.given, b)[2]

\* C13: when add_comparator_to_rule_conditions is called with a target_prefix
\* and no comparator dict, every leaf's value.comparator is the prefix
\* followed by the leaf's target and its value.target is what it was before
\* the call; after the same call a second time the tree is what the first
\* call left.
C13_ComparatorIdempotent ==
    ( /\ rewriter.call = "comparator"
      /\ rewriter.comparator = EmptyDict
      /\ rewriter.target_prefix # <<>> )
    => /\ \A b \in 1..Len(rewriter.given) : \A j \in 1..Len(Leaves(rewriter.given, b)) :
            LET leaf == Leaves(rewriter.given, b)[j]
                now  == Leaves(rewriter.rule["conditions"], b)[j]
            IN  /\ now["value"]["target"] = leaf["value"]["target"]
                /\ now["value"]["comparator"]
                       = rewriter.target_prefix \o leaf["value"]["target"]
       /\ rewriter.calls = 2 => rewriter.rule["conditions"] = rewriter.before

\* the call has been made twice with a prefix on a tree that has a leaf
\* which came with a comparator of its own
C13_Witness ==
    /\ rewriter.call = "comparator"
    /\ rewriter.calls = 2
    /\ rewriter.comparator = EmptyDict
    /\ rewriter.target_prefix = PARENT
    /\ \E b \in 1..Len(rewriter.given) : \E j \in 1..Len(Leaves(rewriter.given, b)) :
        /\ "comparator" \in DOMAIN Leaves(rewriter.given, b)[j]["value"]
        /\ Leaves(rewriter.rule["conditions"], b)[j]["value"]["comparator"]
               = PARENT \o AESEQ

\* C14: when the rule has a non-empty output_variables list,
\* extract_target_names_from_rule returns the set of these names, each with
\* its placeholder resolved for the domain, whatever the conditions and the
\* column names are; ["--TEST"] for domain AE gives {"AETEST"}.
C14_OutputVariablesOnly ==
    ( /\ rewriter.call = "extract"
      /\ "output_variables" \in DOMAIN rewriter.rule
      /\ rewriter.rule["output_variables"] # <<>> )
    => LET output_variables == rewriter.rule["output_variables"]
       IN  /\ rewriter.out = { Resolved(output_variables[i], rewriter.domain) :
                                  i \in 1..Len(output_variables) }
           /\ (output_variables = <<XX_TEST>> /\ rewriter.domain = AE)
              => rewriter.out = {AETEST}

\* output_variables is ["--TEST"], the domain is AE and the conditions hold
\* leaves whose targets are other names
C14_Witness ==
    /\ rewriter.call = "extract"
    /\ "output_variables" \in DOMAIN rewriter.rule
    /\ rewriter.rule["output_variables"] = <<XX_TEST>>
    /\ rewriter.domain = AE
    /\ rewriter.column_names # <<>>
    /\ \E i \in 1..Len(values(rewriter.given)) :
        /\ "target" \in DOMAIN values(rewriter.given)[i]["value"]
        /\ values(rewriter.given)[i]["value"]["target"] = TSVAL
    /\ rewriter.out = {AETEST}

\* name is target followed by one digit or more
TargetThenDigits(name, target) ==
    /\ Len(name) > Len(target)
    /\ SubSeq(name, 1, Len(target)) = target
    /\ \A i \in (Len(target) + 1)..Len(name) : name[i] \in Digits

\* what C15 says a leaf contributes
C15_Contribution(leaf, domain, column_names) ==
    IF "target" \notin DOMAIN leaf["value"] THEN {}
    ELSE LET target == Resolved(leaf["value"]["target"], domain)
         IN  IF /\ "operator" \in DOMAIN leaf
                /\ leaf["operator"] \in {"additional_columns_empty",
                                         "additional_columns_not_empty"}
             THEN {column_names[i] : i \in {j \in 1..Len(column_names) :
                                       TargetThenDigits(column_names[j], target)}}
             ELSE {target}

\* C15: when the rule has no output_variables (none, or an empty list),
\* extract_target_names_from_rule returns the union of what the leaves
\* contribute: for a leaf with operator additional_columns_empty or
\* additional_columns_not_empty the column names that are its resolved target
\* followed by digits (never the target itself), for any other leaf with a
\* target the resolved target; target TSVAL with columns TSVAL, TSVAL1,
\* TSVAL2, OTHER gives {TSVAL1, TSVAL2}.
C15_AdditionalColumns ==
    ( /\ rewriter.call = "extract"
      /\ Get(rewriter.rule, "output_variables", <<>>) = <<>> )
    => LET leaves == values(rewriter.given)
       IN  /\ rewriter.out =
                 UNION { C15_Contribution(leaves[i], rewriter.domain,
                                          rewriter.column_names) :
                            i \in 1..Len(leaves) }
           /\ ( /\ leaves = << [name |-> "get_dataset",
                                operator |-> "additional_columns_empty",
                                value |-> [target |-> TSVAL]] >>
                /\ rewriter.column_names = <<TSVAL, TSVAL1, TSVAL2, OTHER_COL>> )
              => rewriter.out = {TSVAL1, TSVAL2}

\* the TSVAL leaf alone against the columns TSVAL, TSVAL1, TSVAL2, OTHER
C15_Witness ==
    /\ rewriter.call = "extract"
    /\ "output_variables" \notin DOMAIN rewriter.rule
    /\ values(rewriter.given) = << [name |-> "get_dataset",
                                    operator |-> "additional_columns_empty",
                                    value |-> [target |-> TSVAL]] >>
    /\ rewriter.column_names = <<TSVAL, TSVAL1, TSVAL2, OTHER_COL>>
    /\ rewriter.out = {TSVAL1, TSVAL2}

(* ======================= claims: dataset builder ======================= *)
\* the files of the builder's domain: its split group when more than one
SplitGroup(self) == {i \in 1..Len(self.datasets) : self.datasets[i].domain = self.domain}
\* every row of every file of the group
RowsOfGroup(self) ==
    UNION { {[file |-> i, row |-> r] : r \in 1..self.files[i]} : i \in SplitGroup(self) }

C17_ConcatenatesForContentChecksOnly ==
    builder.call = "get_dataset" =>
        LET self == builder.self
            split == Cardinality(SplitGroup(self)) > 1
            content_check == self.rule.rule_type = None
        IN  /\ (builder.concatenated # <<>>) <=> (split /\ content_check)
            /\ ~(split /\ content_check)
               => /\ builder.built = <<self.dataset_path>>
                  /\ builder.dataset =
                        [r \in 1..self.files[self.dataset_path[2]] |->
                            [file |-> self.dataset_path[2], row |-> r]]

(* ==================== claims: pipeline, second part ==================== *)
\* C18 as stated: when perform_rule_operations returns for a rule whose
\* operations are all ungrouped, the dataset handed back has the DOMAIN and
\* the rows of the dataset passed in, and its added columns are exactly the
\* ids of the rule's operations; so it is for operations on another domain,
\* and whether results were computed or came from the cache.
C18_UngroupedAddsColumns ==
    \A w \in Workers :
        ( /\ pc[w] = "done"
          /\ ret[w].kind = "dataset"
          /\ \A j \in 1..Len(rule[w]) : rule[w][j].group = <<>> )
        => LET out == heap[w][ret[w].ref]
               given == call[w].dataset
           IN  /\ out.DOMAIN = given.DOMAIN
               /\ out.rows = given.rows
               /\ \A id \in OpIds :
                     (out.cols[id] # NoCol) <=> (\E j \in 1..Len(rule[w]) : rule[w][j].id = id)

\* C19 as stated: no step of perform_rule_operations changes the operation
\* declarations of a rule object, the grouping lists included.
C19_RuleReadOnly == [][rule' = rule]_vars

(* ================= claims: applicability, second part ================== *)
\* an entry of the Exclude list matches the dataset's domain: the domain
\* itself, "All", or the family entry of a SUPP / AP prefixed domain
ExcludeEntryMatches(dataset_domain, excluded_domains) ==
    \/ dataset_domain \in excluded_domains
    \/ ALL \in excluded_domains
    \/ /\ StartsWith(dataset_domain, <<"S", "U", "P", "P">>)
       /\ SUPP_GENERIC \in excluded_domains
    \/ /\ StartsWith(dataset_domain, <<"A", "P">>)
       /\ AP_GENERIC \in excluded_domains

\* C20: rule_applies_to_domain answers true for a split dataset of a rule
\* with include_split_datasets True that no Exclude entry matches, whatever
\* the Include list holds; it answers false for a split dataset of a rule
\* with include_split_datasets False, whatever the Include list holds; and
\* for a rule with no Include list and include_split_datasets True it
\* answers true for split datasets only.
C20_SplitOverride ==
    gate.call = "domain" =>
        LET domains == gate.rule.domains
        IN  /\ ( /\ domains.include_split_datasets = "True"
                 /\ gate.is_split_domain
                 /\ ~ExcludeEntryMatches(gate.dataset_domain, domains.Exclude) )
               => gate.result
            /\ ( /\ domains.include_split_datasets = "False"
                 /\ gate.is_split_domain )
               => ~gate.result
            /\ ( /\ domains.Include = {}
                 /\ domains.include_split_datasets = "True"
                 /\ gate.result )
               => gate.is_split_domain

\* a split CM dataset passes a rule that includes AE only, by the flag
C20_Witness ==
    /\ gate.call = "domain"
    /\ gate.rule.domains.Include = {AE}
    /\ gate.rule.domains.Exclude = {SUPP_GENERIC}
    /\ gate.rule.domains.include_split_datasets = "True"
    /\ gate.dataset_domain = CM
    /\ gate.is_split_domain
    /\ gate.result

\* C21: whenever an entry of the Exclude list matches the dataset's domain
\* (the domain itself, "All", or the family entry of its SUPP / AP prefix),
\* rule_applies_to_domain answers false, whatever the Include list, the
\* include_split_datasets flag and the split state are.
C21_ExclusionWins ==
    ( /\ gate.call = "domain"
      /\ ExcludeEntryMatches(gate.dataset_domain, gate.rule.domains.Exclude) )
    => ~gate.result

\* a split SUPPAE dataset of a rule that includes "All" and switches split
\* datasets on is rejected because of the family entry SUPP-- in Exclude
C21_Witness ==
    /\ gate.call = "domain"
    /\ gate.dataset_domain = SUPPAE
    /\ gate.rule.domains.Include = {ALL}
    /\ gate.rule.domains.Exclude = {SUPP_GENERIC, CM}
    /\ gate.rule.domains.include_split_datasets = "True"
    /\ gate.is_split_domain
    /\ ~gate.result

\* C22 as stated: rule_applies_to_class answers false when the dataset's
\* class or "All" is in the Exclude class list; otherwise it answers true
\* when the Include class list is empty, holds the dataset's class or holds
\* "All"; a class the system cannot detect, alone in a list, changes nothing.
C22_ClassGateLikeDomainGate ==
    gate.call = "class" =>
        LET Include == gate.rule.classes.Include
            Exclude == gate.rule.classes.Exclude
            excluded == gate.class_name \in Exclude \/ "All" \in Exclude
            included == \/ Include = {}
                        \/ gate.class_name \in Include
                        \/ "All" \in Include
        IN  /\ excluded => ~gate.result
            /\ (included /\ ~excluded) => gate.result
            /\ (Include \subseteq {"TRIAL DESIGN"} /\ Exclude \subseteq {"TRIAL DESIGN"})
               => gate.result

(* ======================= claims: terms factory ========================= *)
\* C23 as stated: install_terms does not fail; for every WHODrug file in the
\* directory the mapping holds, under the record type of the file, one term
\* per line of the file in line order, and nothing else; every file missing
\* from the directory is warned about.
C23_OneTermPerLine ==
    whodrug.call = "install_terms" =>
        LET directory == whodrug.directory
            terms == whodrug.code_to_term_map
            type(f) == CASE f = "DD"  -> "DRUG_DICT"
                         [] f = "DDA" -> "ATC_CLASSIFICATION"
                         [] f = "INA" -> "ATC_TEXT"
            lines(f) == IF f \in DOMAIN directory THEN directory[f] ELSE <<>>
            held(f) == IF type(f) \in DOMAIN terms THEN terms[type(f)] ELSE <<>>
        IN  /\ whodrug.raised = None
            /\ \A f \in {"DD", "DDA", "INA"} :
                /\ Len(held(f)) = Len(lines(f))
                /\ \A n \in 1..Len(lines(f)) :
                      n <= Len(held(f)) => held(f)[n].line = lines(f)[n]
                /\ f \notin DOMAIN directory
                   => \E k \in 1..Len(whodrug.warnings) : whodrug.warnings[k] = f

====
